---- MODULE Spec2Model ----
(* Model of income_predictor.py: the record cleaner (get_data), the        *)
(* positional split of main, the classifier builder (create_classifier)    *)
(* and the evaluator (test_classifier).                                    *)
(*                                                                         *)
(* Text is a sequence of one-character strings, a field is a sequence of   *)
(* characters, a record is a sequence of fields.  Python floats are        *)
(* modelled by exact rationals (a threshold is a pair num/den); the only   *)
(* place where the float rounding can be observed, round(x, 2) on a value  *)
(* exactly half way between two hundredths, is a choice between the two    *)
(* neighbouring hundredths.                                                *)
EXTENDS Integers, Sequences, FiniteSets, TLC

VARIABLES call, pc, exc,
          net_content, data, gi, bad_records, cleaned_dataset,
          training_dataset, test_dataset,
          ci, pos_num_attr, neg_num_attr, pos_not_num_attr, neg_not_num_attr,
          not_num_sub_attr, midpoint_num, classifier,
          ti, ai, pos_counter, neg_counter, next_index,
          incorrect_classification, score_args, accuracy_score

vars == <<call, pc, exc,
          net_content, data, gi, bad_records, cleaned_dataset,
          training_dataset, test_dataset,
          ci, pos_num_attr, neg_num_attr, pos_not_num_attr, neg_not_num_attr,
          not_num_sub_attr, midpoint_num, classifier,
          ti, ai, pos_counter, neg_counter, next_index,
          incorrect_classification, score_args, accuracy_score>>

getDataVars == <<data, gi, bad_records, cleaned_dataset>>
createVars == <<ci, pos_num_attr, neg_num_attr, pos_not_num_attr,
                neg_not_num_attr, not_num_sub_attr, midpoint_num, classifier>>
testVars == <<ti, ai, pos_counter, neg_counter, next_index,
              incorrect_classification, accuracy_score>>

(* ---------------------------------------------------------------------- *)
(* Bounds of the model.                                                    *)
(* ---------------------------------------------------------------------- *)
MaxLines == 3
MaxTrain == 3
MaxTest == 2
MaxTotal == 6

(* ---------------------------------------------------------------------- *)
(* Program constants.                                                      *)
(* ---------------------------------------------------------------------- *)
PERCENT == 75
NumLanes == 5
NotNumLanes == 6
SliceLo == 2
SliceHi == 4
DelAt == 11
ScoreDigits == 2

\* None: no exception raised, and what dict.get gives for a missing key.
None == "None"

\* A variable that is not bound yet.
Unset == <<>>

(* ---------------------------------------------------------------------- *)
(* Strings.                                                                *)
(* ---------------------------------------------------------------------- *)
SP == " "
NL == "\n"
COMMA == ","
QM == "?"

Digits == <<"0", "1", "2", "3", "4", "5", "6", "7", "8", "9">>

Min(a, b) == IF a < b THEN a ELSE b

Contains(s, c) == \E i \in 1..Len(s) : s[i] = c

\* Index of the first occurrence of p in s, 0 when there is none (str.find + 1).
Find(s, p) ==
    LET hits == {i \in 1..(Len(s) - Len(p) + 1) : SubSeq(s, i, i + Len(p) - 1) = p}
    IN  IF hits = {} THEN 0 ELSE CHOOSE i \in hits : \A j \in hits : i <= j

\* str.replace(old, new): the first occurrence is replaced, the search
\* goes on after it (left to right, non-overlapping, no rescan).
RECURSIVE Replace(_, _, _)
Replace(s, old, new) ==
    LET i == Find(s, old)
    IN  IF i = 0 THEN s
        ELSE SubSeq(s, 1, i - 1) \o new
                 \o Replace(SubSeq(s, i + Len(old), Len(s)), old, new)

IsSpace(c) == c \in {SP, NL}

\* str.strip(): leading and trailing whitespace removed.
RECURSIVE LStrip(_)
LStrip(s) == IF s # <<>> /\ IsSpace(Head(s)) THEN LStrip(Tail(s)) ELSE s

RECURSIVE RStrip(_)
RStrip(s) == IF s # <<>> /\ IsSpace(s[Len(s)])
             THEN RStrip(SubSeq(s, 1, Len(s) - 1)) ELSE s

Strip(s) == RStrip(LStrip(s))

\* str.split(sep) with an explicit separator: never the empty list.
RECURSIVE Split(_, _)
Split(s, sep) ==
    LET i == Find(s, <<sep>>)
    IN  IF i = 0 THEN <<s>>
        ELSE <<SubSeq(s, 1, i - 1)>> \o Split(SubSeq(s, i + 1, Len(s)), sep)

\* str.isnumeric() on the modelled alphabet: non-empty and all digits.
IsNumeric(f) == f # <<>> /\ \A i \in 1..Len(f) : \E d \in 1..10 : Digits[d] = f[i]

DigitVal(c) == (CHOOSE d \in 1..10 : Digits[d] = c) - 1

\* int(f) of a digit string.
RECURSIVE IntOf(_)
IntOf(f) == IF f = <<>> THEN 0
            ELSE 10 * IntOf(SubSeq(f, 1, Len(f) - 1)) + DigitVal(f[Len(f)])

\* del r[lo:hi] (0-based, clipped to the list as Python slices are).
DelSlice(r, lo, hi) ==
    SubSeq(r, 1, Min(lo, Len(r))) \o SubSeq(r, Min(hi, Len(r)) + 1, Len(r))

\* del r[k] (0-based); the caller checks k < len(r), else IndexError.
DelIndex(r, k) == SubSeq(r, 1, k) \o SubSeq(r, k + 2, Len(r))

\* r[start::step] (0-based start).
Stride(s, start, step) ==
    LET n == IF Len(s) > start THEN (Len(s) - start + step - 1) \div step ELSE 0
    IN  [j \in 1..n |-> s[start + 1 + (j - 1) * step]]

RECURSIVE Sum(_)
Sum(s) == IF s = <<>> THEN 0 ELSE Head(s) + Sum(Tail(s))

\* list.count(v)
Count(s, v) == Cardinality({i \in 1..Len(s) : s[i] = v})

RECURSIVE Join(_, _)
Join(parts, sep) ==
    IF parts = <<>> THEN <<>>
    ELSE IF Len(parts) = 1 THEN parts[1]
         ELSE parts[1] \o sep \o Join(Tail(parts), sep)

\* All sequences over S of length lo..hi.
SeqsOf(S, lo, hi) == UNION {[1..n -> S] : n \in lo..hi}

(* ---------------------------------------------------------------------- *)
(* Inputs: fields, raw lines, cleaned records.                             *)
(* ---------------------------------------------------------------------- *)
GT50K == <<">", "5", "0", "K">>
LE50K == <<"<", "=", "5", "0", "K">>

F30 == <<"3", "0">>
F50 == <<"5", "0">>
F0 == <<"0">>
F2 == <<"2">>
F3 == <<"3">>
F4 == <<"4">>
F5 == <<"5">>
F7 == <<"7">>
F9 == <<"9">>
Fa == <<"a">>
Fb == <<"b">>
Fc == <<"c">>
Fm == <<"m">>
Fx == <<"x">>
Fq == <<QM>>

\* The 15 columns of a raw row: age, workclass, fnlwgt, education,
\* education-num, marital-status, occupation, relationship, race, sex,
\* capital-gain, capital-loss, hours-per-week, native-country, label.
RowPos == <<F50, Fa, F9, Fx, F7, Fm, Fa, Fb, Fc, Fm, F5, F0, F4, Fc, GT50K>>
RowNeg == <<F30, Fa, F9, Fx, F3, Fb, Fa, Fb, Fc, Fm, F0, F0, F2, Fc, LE50K>>
RowNeg2 == <<F30, Fb, F9, Fx, F7, Fm, Fb, Fb, Fc, Fx, F0, F0, F4, Fc, LE50K>>
RowMissing == <<F50, Fq, F9, Fx, F7, Fm, Fa, Fb, Fc, Fm, F5, F0, F4, Fc, GT50K>>

LinePos == Join(RowPos, <<COMMA>>)
LineNeg == Join(RowNeg, <<COMMA>>)
LineSpaced == Join(RowNeg2, <<COMMA, SP>>)
LineSpaced2 == Join(RowPos, <<SP, COMMA>>)
LineMissing == Join(RowMissing, <<COMMA>>)
LineEmpty == <<>>
Line14 == Join(SubSeq(RowNeg, 1, 14), <<COMMA>>)
Line16 == Join(RowPos \o <<Fx>>, <<COMMA>>)

SampleLines == {LinePos, LineNeg, LineSpaced, LineMissing, LineEmpty,
                Line14, Line16}

Texts == {Join(ls, <<NL>>) : ls \in SeqsOf(SampleLines, 0, MaxLines)}
             \cup {LineSpaced2}


\* What line 75 leaves of a row that is long enough.
CleanRow(row) == DelIndex(DelSlice(row, SliceLo, SliceHi), DelAt)

RecPos == CleanRow(RowPos)
RecNeg == CleanRow(RowNeg)
RecNeg2 == CleanRow(RowNeg2)
RecPos2 == <<F30, Fb, F3, Fb, Fb, Fb, Fc, Fx, F0, F0, F2, GT50K>>
RecTie == <<F50, Fb, F7, Fm, Fa, Fb, Fc, Fx, F5, F0, F2, GT50K>>
\* Off-schema records the cleaner lets through: a 14-column row keeps 4
\* numeric attributes and ends in a number; a numeric workclass gives 6.
Rec14 == DelIndex(DelSlice(SubSeq(RowNeg, 1, 14), SliceLo, SliceHi), DelAt)
RecSixNum == <<F50, F7, F7, Fm, Fa, Fb, Fc, Fm, F5, F0, F4, GT50K>>

TrainRecords == {RecPos, RecNeg, RecNeg2, RecPos2, Rec14}
TestRecords == {RecPos, RecNeg, RecNeg2, RecTie, Rec14, RecSixNum}

TrainingSets == SeqsOf(TrainRecords, 0, MaxTrain)
TestSets == SeqsOf(TestRecords, 0, MaxTest)

\* A threshold is the rational num/den, den > 0.
Rat(n, d) == [num |-> n, den |-> d]

\* create_classifier(<<RecPos, RecNeg>>) and create_classifier(<<RecPos2, RecNeg2>>).
Classifier1 ==
    <<<<Rat(80, 2), Rat(10, 2), Rat(5, 2), Rat(0, 2), Rat(6, 2)>>,
      (Fa :> "neutral") @@ (Fm :> "pos") @@ (Fb :> "neg") @@ (Fc :> "neutral")>>
Classifier2 ==
    <<<<Rat(60, 2), Rat(10, 2), Rat(0, 2), Rat(0, 2), Rat(6, 2)>>,
      (Fb :> "pos") @@ (Fc :> "neutral") @@ (Fx :> "neutral") @@ (Fm :> "neg")>>

Classifiers == {Classifier1, Classifier2}

(* ---------------------------------------------------------------------- *)
(* get_data                                                                *)
(* ---------------------------------------------------------------------- *)
\* Line 67: spaces next to commas removed, text stripped, split into lines.
Normalize(text) ==
    Split(Strip(Replace(Replace(text, <<COMMA, SP>>, <<COMMA>>),
                        <<SP, COMMA>>, <<COMMA>>)), NL)

\* DropColumns without the slice deletion.
DropColumnsNoSlice(record) == DelIndex(record, DelAt)

\* Line 75, del record[2:4], record[11]: the second deletion raises
\* IndexError when the sliced record has no index 11.
CanDrop(record) == DelAt < Len(DelSlice(record, SliceLo, SliceHi))

\* Line 75 on a record that is long enough.
DropColumns(record) == DelIndex(DelSlice(record, SliceLo, SliceHi), DelAt)

\* RecordOutcome looking for the marker in the first field only.
RecordOutcomeFirstField(line) ==
    IF Contains(Split(line, COMMA)[1], QM) THEN "continue"
    ELSE IF Split(line, COMMA) = <<>> THEN "ValueError"
    ELSE IF ~CanDrop(Split(line, COMMA)) THEN "IndexError"
    ELSE "append"

\* RecordOutcome raising the ValueError for a line with the marker.
RecordOutcomeCounted(line) ==
    IF Contains(line, QM) THEN "ValueError"
    ELSE IF Split(line, COMMA) = <<>> THEN "ValueError"
    ELSE IF ~CanDrop(Split(line, COMMA)) THEN "IndexError"
    ELSE "append"

\* Lines 71-78: what one iteration does with a line.
RecordOutcome(line) ==
    IF Contains(line, QM) THEN "continue"
    ELSE IF Split(line, COMMA) = <<>> THEN "ValueError"
    ELSE IF ~CanDrop(Split(line, COMMA)) THEN "IndexError"
    ELSE "append"

\* Lines 63-67.
GetDataStart ==
    /\ pc = "get_data"
    /\ bad_records' = 0
    /\ cleaned_dataset' = <<>>
    /\ data' = Normalize(net_content)
    /\ gi' = 1
    /\ pc' = "get_data_loop"
    /\ UNCHANGED <<call, exc, net_content, training_dataset, test_dataset,
                   createVars, testVars, score_args>>

\* Lines 69-83: one iteration of the loop over the lines.  The handler
\* catches ValueError only; the IndexError of line 75 leaves get_data.
GetDataRecord ==
    /\ pc = "get_data_loop"
    /\ gi <= Len(data)
    /\ LET line == data[gi]
           outcome == RecordOutcome(line)
       IN  /\ bad_records' = IF outcome = "ValueError"
                             THEN bad_records + 1 ELSE bad_records
           /\ cleaned_dataset' = IF outcome = "append"
                                 THEN Append(cleaned_dataset,
                                             DropColumns(Split(line, COMMA)))
                                 ELSE cleaned_dataset
           /\ gi' = IF outcome = "IndexError" THEN gi ELSE gi + 1
           /\ exc' = IF outcome = "IndexError" THEN "IndexError" ELSE exc
           /\ pc' = IF outcome = "IndexError" THEN "raised" ELSE pc
    /\ UNCHANGED <<call, net_content, data, training_dataset, test_dataset,
                   createVars, testVars, score_args>>

\* Line 85.
GetDataReturn ==
    /\ pc = "get_data_loop"
    /\ gi > Len(data)
    /\ pc' = "split"
    /\ UNCHANGED <<call, exc, net_content, getDataVars, training_dataset,
                   test_dataset, createVars, testVars, score_args>>

(* ---------------------------------------------------------------------- *)
(* main                                                                    *)
(* ---------------------------------------------------------------------- *)
\* SplitPoint rounding up.
SplitPointCeil(n) == (n * PERCENT + 99) \div 100

\* int(len(cleaned_dataset) * PERCENT / 100)
SplitPoint(n) == (n * PERCENT) \div 100

\* Lines 205-206.
MainSplit ==
    /\ pc = "split"
    /\ training_dataset' = SubSeq(cleaned_dataset, 1, SplitPoint(Len(cleaned_dataset)))
    /\ test_dataset' = SubSeq(cleaned_dataset, SplitPoint(Len(cleaned_dataset)) + 1,
                              Len(cleaned_dataset))
    /\ pc' = "create"
    /\ UNCHANGED <<call, exc, net_content, getDataVars, createVars, testVars,
                   score_args>>

(* ---------------------------------------------------------------------- *)
(* create_classifier                                                       *)
(* ---------------------------------------------------------------------- *)
Attributes(record) == SubSeq(record, 1, Len(record) - 1)

Label(record) == record[Len(record)]

NotNumeric(f) == ~IsNumeric(f)

\* Lines 113-117 / 120-124: the numeric attributes of a record, as integers.
NumAttrs(record) ==
    LET sel == SelectSeq(Attributes(record), IsNumeric)
    IN  [i \in 1..Len(sel) |-> IntOf(sel[i])]

NotNumAttrs(record) == SelectSeq(Attributes(record), NotNumeric)

\* Lines 128-129: the non-numeric attributes not yet listed are appended.
RECURSIVE AddSubAttrs(_, _)
AddSubAttrs(known, attrs) ==
    IF attrs = <<>> THEN known
    ELSE AddSubAttrs(IF ~(\E i \in 1..Len(known) : known[i] = Head(attrs))
                        /\ NotNumeric(Head(attrs))
                     THEN Append(known, Head(attrs)) ELSE known,
                     Tail(attrs))

\* Midpoint without the division by 2.
MidpointSum(p, n) == Rat(Sum(p) * Len(n) + Sum(n) * Len(p), Len(p) * Len(n))

\* Lines 133-134: (sum(p)/len(p) + sum(n)/len(n)) / 2 as a rational.
Midpoint(p, n) == Rat(Sum(p) * Len(n) + Sum(n) * Len(p), 2 * Len(p) * Len(n))

\* Outcome comparing the counts, not the counts per record.
OutcomeByCount(posCount, posLen, negCount, negLen) ==
    IF posCount > negCount THEN "pos"
    ELSE IF posCount < negCount THEN "neg"
    ELSE "neutral"

\* Lines 138-145: count/len of both pools compared.
Outcome(posCount, posLen, negCount, negLen) ==
    IF posCount * negLen > negCount * posLen THEN "pos"
    ELSE IF posCount * negLen < negCount * posLen THEN "neg"
    ELSE "neutral"

\* EmptyLane of a build that guards the division.
EmptyLaneGuarded(s) == FALSE

\* Lines 133-134, 138-139: len(s) of a pool lane is the divisor.
EmptyLane(s) == Len(s) = 0

\* Line 197: len(test_dataset) is the divisor.
DivByZero(s) == Len(s) = 0

\* Lines 102-109.
CreateStart ==
    /\ pc = "create"
    /\ pos_num_attr' = <<>> /\ neg_num_attr' = <<>>
    /\ pos_not_num_attr' = <<>> /\ neg_not_num_attr' = <<>>
    /\ not_num_sub_attr' = <<>> /\ midpoint_num' = <<>>
    /\ ci' = 1
    /\ pc' = "create_loop"
    /\ UNCHANGED <<call, exc, net_content, getDataVars, training_dataset,
                   test_dataset, classifier, testVars, score_args>>

\* Lines 111-129: one record of the training data.
CreateRecord ==
    /\ pc = "create_loop"
    /\ ci <= Len(training_dataset)
    /\ LET record == training_dataset[ci]
       IN  /\ IF Label(record) = GT50K
              THEN /\ pos_num_attr' = pos_num_attr \o NumAttrs(record)
                   /\ pos_not_num_attr' = pos_not_num_attr \o NotNumAttrs(record)
                   /\ UNCHANGED <<neg_num_attr, neg_not_num_attr>>
              ELSE /\ neg_num_attr' = neg_num_attr \o NumAttrs(record)
                   /\ neg_not_num_attr' = neg_not_num_attr \o NotNumAttrs(record)
                   /\ UNCHANGED <<pos_num_attr, pos_not_num_attr>>
           /\ not_num_sub_attr' = AddSubAttrs(not_num_sub_attr, Attributes(record))
    /\ ci' = ci + 1
    /\ UNCHANGED <<call, pc, exc, net_content, getDataVars, training_dataset,
                   test_dataset, midpoint_num, classifier, testVars, score_args>>

\* Lines 132-134: the five midpoints, or the division by zero of an empty lane.
CreateMidpoints ==
    /\ pc = "create_loop"
    /\ ci > Len(training_dataset)
    /\ IF \E i \in 0..(NumLanes - 1) :
              \/ EmptyLane(Stride(pos_num_attr, i, NumLanes))
              \/ EmptyLane(Stride(neg_num_attr, i, NumLanes))
       THEN /\ exc' = "ZeroDivisionError"
            /\ pc' = "raised"
            /\ UNCHANGED midpoint_num
       ELSE /\ midpoint_num' = [i \in 1..NumLanes |->
                                   Midpoint(Stride(pos_num_attr, i - 1, NumLanes),
                                            Stride(neg_num_attr, i - 1, NumLanes))]
            /\ pc' = "create_outcomes"
            /\ UNCHANGED exc
    /\ UNCHANGED <<call, net_content, getDataVars, training_dataset, test_dataset,
                   ci, pos_num_attr, neg_num_attr, pos_not_num_attr,
                   neg_not_num_attr, not_num_sub_attr, classifier, testVars,
                   score_args>>

\* Lines 137-145: the outcome of every listed non-numeric attribute.
Outcomes ==
    [i \in 1..Len(not_num_sub_attr) |->
        Outcome(Count(pos_not_num_attr, not_num_sub_attr[i]),
                Len(Stride(pos_not_num_attr, 0, NotNumLanes)),
                Count(neg_not_num_attr, not_num_sub_attr[i]),
                Len(Stride(neg_not_num_attr, 0, NotNumLanes)))]

\* dict(zip(keys, values)): a later pair overrides an earlier one.
DictZip(keys, values) ==
    [k \in {keys[i] : i \in 1..Len(keys)} |->
        values[CHOOSE i \in 1..Len(keys) :
                   keys[i] = k /\ \A j \in 1..Len(keys) : keys[j] = k => j <= i]]

\* Lines 137-150.
CreateOutcomes ==
    /\ pc = "create_outcomes"
    /\ IF /\ not_num_sub_attr # <<>>
          /\ \/ EmptyLane(Stride(pos_not_num_attr, 0, NotNumLanes))
             \/ EmptyLane(Stride(neg_not_num_attr, 0, NotNumLanes))
       THEN /\ exc' = "ZeroDivisionError"
            /\ pc' = "raised"
            /\ UNCHANGED classifier
       ELSE /\ classifier' = <<midpoint_num, DictZip(not_num_sub_attr, Outcomes)>>
            /\ pc' = IF call = "main" THEN "test" ELSE "done"
            /\ UNCHANGED exc
    /\ UNCHANGED <<call, net_content, getDataVars, training_dataset, test_dataset,
                   ci, pos_num_attr, neg_num_attr, pos_not_num_attr,
                   neg_not_num_attr, not_num_sub_attr, midpoint_num, testVars,
                   score_args>>

(* ---------------------------------------------------------------------- *)
(* test_classifier                                                         *)
(* ---------------------------------------------------------------------- *)
\* AboveMidpoint with >= for >.
AtLeastMidpoint(value, midpoint) == value * midpoint.den >= midpoint.num

\* Line 173: int(record[i]) > classifier[0][next_index]
AboveMidpoint(value, midpoint) == value * midpoint.den > midpoint.num

\* dict.get(key): None for a key the dict does not have.
Get(dict, key) == IF key \in DOMAIN dict THEN dict[key] ELSE None

\* Line 186: the record is taken for '>50K'.
PredictsAbove(pos, neg) == pos > neg

\* Lines 186-195: 1 when the prediction is not the label of the record.
Misclassified(pos, neg, label) ==
    IF PredictsAbove(pos, neg)
    THEN (IF label # GT50K THEN 1 ELSE 0)
    ELSE (IF label # LE50K THEN 1 ELSE 0)

\* Hundredths of a percent in 100 percent.
Scale == 100 * 10 ^ ScoreDigits

Abs(x) == IF x < 0 THEN 0 - x ELSE x

\* AccuracyScore without the "- 100": the error rate.
ErrorRate(incorrect, total) ==
    LET h == incorrect * Scale
        q == h \div total
        r == h % total
    IN  IF 2 * r < total THEN {q}
        ELSE IF 2 * r > total THEN {q + 1}
        ELSE {q, q + 1}

\* Line 197: round(abs(incorrect / total * 100 - 100), 2), in hundredths.
\* A value exactly between two hundredths goes to either of them: the
\* float that stands for it may lie on either side of the tie.
AccuracyScore(incorrect, total) ==
    LET h == Abs(incorrect * Scale - total * Scale)
        q == h \div total
        r == h % total
    IN  IF 2 * r < total THEN {q}
        ELSE IF 2 * r > total THEN {q + 1}
        ELSE {q, q + 1}

\* Line 164.
TestStart ==
    /\ pc = "test"
    /\ incorrect_classification' = 0
    /\ ti' = 1
    /\ pc' = "test_record"
    /\ UNCHANGED <<call, exc, net_content, getDataVars, training_dataset,
                   test_dataset, createVars, ai, pos_counter, neg_counter,
                   next_index, accuracy_score, score_args>>

\* Lines 166-169: the next record of the test data.
TestRecord ==
    /\ pc = "test_record"
    /\ ti <= Len(test_dataset)
    /\ pos_counter' = 0
    /\ neg_counter' = 0
    /\ next_index' = 0
    /\ ai' = 1
    /\ pc' = "test_attr"
    /\ UNCHANGED <<call, exc, net_content, getDataVars, training_dataset,
                   test_dataset, createVars, ti, incorrect_classification,
                   accuracy_score, score_args>>

\* Lines 171-184: one attribute of the record votes.
TestAttr ==
    /\ pc = "test_attr"
    /\ ai <= Len(test_dataset[ti]) - 1
    /\ LET attr == test_dataset[ti][ai]
       IN  IF IsNumeric(attr)
           THEN IF next_index >= Len(classifier[1])
                THEN /\ exc' = "IndexError"
                     /\ pc' = "raised"
                     /\ UNCHANGED <<pos_counter, neg_counter, next_index, ai>>
                ELSE /\ IF AboveMidpoint(IntOf(attr), classifier[1][next_index + 1])
                        THEN /\ pos_counter' = pos_counter + 1
                             /\ UNCHANGED neg_counter
                        ELSE /\ neg_counter' = neg_counter + 1
                             /\ UNCHANGED pos_counter
                     /\ next_index' = next_index + 1
                     /\ ai' = ai + 1
                     /\ UNCHANGED <<exc, pc>>
           ELSE /\ pos_counter' = IF Get(classifier[2], attr) = "pos"
                                  THEN pos_counter + 1 ELSE pos_counter
                /\ neg_counter' = IF Get(classifier[2], attr) = "neg"
                                  THEN neg_counter + 1 ELSE neg_counter
                /\ ai' = ai + 1
                /\ UNCHANGED <<exc, pc, next_index>>
    /\ UNCHANGED <<call, net_content, getDataVars, training_dataset, test_dataset,
                   createVars, ti, incorrect_classification, accuracy_score,
                   score_args>>

\* Lines 186-195: the votes are compared and the record is scored.
TestDecide ==
    /\ pc = "test_attr"
    /\ ai > Len(test_dataset[ti]) - 1
    /\ incorrect_classification' =
           incorrect_classification
               + Misclassified(pos_counter, neg_counter, Label(test_dataset[ti]))
    /\ ti' = ti + 1
    /\ pc' = "test_record"
    /\ UNCHANGED <<call, exc, net_content, getDataVars, training_dataset,
                   test_dataset, createVars, ai, pos_counter, neg_counter,
                   next_index, accuracy_score, score_args>>

\* Lines 197-199.
TestScore ==
    /\ pc = "test_record"
    /\ ti > Len(test_dataset)
    /\ IF DivByZero(test_dataset)
       THEN /\ exc' = "ZeroDivisionError"
            /\ pc' = "raised"
            /\ UNCHANGED accuracy_score
       ELSE /\ \E score \in AccuracyScore(incorrect_classification,
                                             Len(test_dataset)) :
                   accuracy_score' = <<score>>
            /\ pc' = "done"
            /\ UNCHANGED exc
    /\ UNCHANGED <<call, net_content, getDataVars, training_dataset, test_dataset,
                   createVars, ti, ai, pos_counter, neg_counter, next_index,
                   incorrect_classification, score_args>>

\* Line 197 applied to a pair (incorrect, total) with total > 0.
ApplyScore ==
    /\ pc = "score"
    /\ \E score \in AccuracyScore(score_args[1], score_args[2]) :
          accuracy_score' = <<score>>
    /\ pc' = "done"
    /\ UNCHANGED <<call, exc, net_content, getDataVars, training_dataset,
                   test_dataset, createVars, ti, ai, pos_counter, neg_counter,
                   next_index, incorrect_classification, score_args>>

(* ---------------------------------------------------------------------- *)
(* Initial states: one per entry point and input.                          *)
(* ---------------------------------------------------------------------- *)
GetDataIdle ==
    data = <<>> /\ gi = 0 /\ bad_records = 0 /\ cleaned_dataset = <<>>

CreateIdle ==
    /\ ci = 0
    /\ pos_num_attr = <<>> /\ neg_num_attr = <<>>
    /\ pos_not_num_attr = <<>> /\ neg_not_num_attr = <<>>
    /\ not_num_sub_attr = <<>> /\ midpoint_num = <<>>

TestIdle ==
    /\ ti = 0 /\ ai = 0 /\ pos_counter = 0 /\ neg_counter = 0
    /\ next_index = 0 /\ incorrect_classification = 0
    /\ accuracy_score = Unset

\* The smallest test set for which one wrong record in it is rounded away.
LargeTotal == 2 * Scale + 1

ScoreArgs ==
    {a \in (0..MaxTotal) \X (1..MaxTotal) : a[1] <= a[2]}
        \cup {<<m, n>> : m \in {0, 1}, n \in {LargeTotal - 1, LargeTotal}}
        \cup {<<n - m, n>> : m \in {0, 1}, n \in {LargeTotal - 1, LargeTotal}}

\* main(): the text get_file_from_net hands over.
InitMain ==
    /\ call = "main" /\ pc = "get_data" /\ exc = None
    /\ net_content \in Texts
    /\ training_dataset = <<>> /\ test_dataset = <<>>
    /\ classifier = Unset /\ score_args = Unset
    /\ GetDataIdle /\ CreateIdle /\ TestIdle

\* create_classifier(data)
InitCreate ==
    /\ call = "create_classifier" /\ pc = "create" /\ exc = None
    /\ net_content = <<>>
    /\ training_dataset \in TrainingSets /\ test_dataset = <<>>
    /\ classifier = Unset /\ score_args = Unset
    /\ GetDataIdle /\ CreateIdle /\ TestIdle

\* test_classifier(test_dataset, classifier)
InitTest ==
    /\ call = "test_classifier" /\ pc = "test" /\ exc = None
    /\ net_content = <<>>
    /\ training_dataset = <<>> /\ test_dataset \in TestSets
    /\ classifier \in Classifiers /\ score_args = Unset
    /\ GetDataIdle /\ CreateIdle /\ TestIdle

\* The accuracy formula of test_classifier on its two inputs.
InitScore ==
    /\ call = "accuracy_score" /\ pc = "score" /\ exc = None
    /\ net_content = <<>>
    /\ training_dataset = <<>> /\ test_dataset = <<>>
    /\ classifier = Unset /\ score_args \in ScoreArgs
    /\ GetDataIdle /\ CreateIdle /\ TestIdle

Init == InitMain \/ InitCreate \/ InitTest \/ InitScore

Next ==
    \/ GetDataStart \/ GetDataRecord \/ GetDataReturn
    \/ MainSplit
    \/ CreateStart \/ CreateRecord \/ CreateMidpoints \/ CreateOutcomes
    \/ TestStart \/ TestRecord \/ TestAttr \/ TestDecide \/ TestScore
    \/ ApplyScore

Spec == Init /\ [][Next]_vars



(* ---------------------------------------------------------------------- *)
(* Properties.                                                             *)
(* ---------------------------------------------------------------------- *)
RecordLen == NumLanes + NotNumLanes + 1

\* get_data has returned to main.
GetDataReturned == call = "main" /\ (pc \in {"split", "create"} \/ ci >= 1)

\* main has split the cleaned records.
SplitDone == call = "main" /\ (pc = "create" \/ ci >= 1)

HasMarker(line) == \E i \in 1..Len(line) : line[i] = QM

FieldCount(line) == Cardinality({i \in 1..Len(line) : line[i] = COMMA}) + 1

\* The fields of a line less its columns 2, 3 and 13 (counted from 0).
ExpectedRecord(line) ==
    LET f == Split(line, COMMA)
    IN  [j \in 1..(Len(f) - 3) |->
            f[IF j <= 2 THEN j ELSE IF j <= 11 THEN j + 2 ELSE j + 3]]

\* The lines among the first k that carry no marker, and the position in
\* data of the i-th of them.
KeptAmong(k) == {j \in 1..k : ~HasMarker(data[j])}

SourceLine(i) ==
    CHOOSE j \in KeptAmong(Len(data)) : Cardinality(KeptAmong(j)) = i

\* Lines get_data has gone through.
Processed == IF pc = "get_data_loop" \/ (call = "main" /\ pc = "raised" /\ ci = 0)
             THEN gi - 1 ELSE Len(data)

InGetData == call = "main" /\ pc # "get_data"

\* C1 as stated: once get_data has returned on a text without '?', every
\* record has exactly 12 fields, whatever the lines were.
C1_TwelveFieldsAlways ==
    (GetDataReturned /\ ~HasMarker(net_content))
        => \A i \in 1..Len(cleaned_dataset) : Len(cleaned_dataset[i]) = RecordLen

\* C1 amended: once get_data has returned on a text without '?', there is
\* one record per line and the record of a line of n fields has n - 3
\* fields: 12 exactly for the lines of 15 fields.
C1_ThreeFieldsDropped ==
    (GetDataReturned /\ ~HasMarker(net_content))
        => /\ Len(cleaned_dataset) = Len(data)
           /\ \A i \in 1..Len(cleaned_dataset) :
                 /\ Len(cleaned_dataset[i]) = FieldCount(data[i]) - 3
                 /\ (FieldCount(data[i]) = 15 <=> Len(cleaned_dataset[i]) = RecordLen)

C1_Witness ==
    /\ GetDataReturned /\ ~HasMarker(net_content)
    /\ Len(cleaned_dataset) = 2
    /\ FieldCount(data[1]) = 15 /\ Len(cleaned_dataset[1]) = RecordLen
    /\ Contains(net_content, SP)

\* C2: an empty line is rejected and counted, and never takes get_data
\* down: get_data is never left by an exception raised on an empty line,
\* and the discard counter is the number of empty lines gone through.
C2_EmptyLineRecovered ==
    InGetData
        => /\ ~(pc = "raised" /\ ci = 0 /\ data[gi] = <<>>)
           /\ bad_records = Cardinality({j \in 1..Processed : data[j] = <<>>})

\* C3: no record comes from a line with '?', and the records of the other
\* lines are what they are without the dropped lines: at every point of
\* the loop the cleaned records are the lines gone through that carry no
\* marker, each less its three dropped columns.
C3_MissingFiltered ==
    InGetData
        => /\ Len(cleaned_dataset) = Cardinality(KeptAmong(Processed))
           /\ \A i \in 1..Len(cleaned_dataset) :
                 /\ ~HasMarker(data[SourceLine(i)])
                 /\ cleaned_dataset[i] = ExpectedRecord(data[SourceLine(i)])

C3_Witness ==
    /\ GetDataReturned
    /\ Len(data) = 3
    /\ HasMarker(data[2]) /\ ~HasMarker(data[1]) /\ ~HasMarker(data[3])
    /\ Len(cleaned_dataset) = 2
    /\ cleaned_dataset[2] = ExpectedRecord(data[3])

\* C10 as stated: every line with '?' get_data has gone through has added
\* one to bad_records.
C10_MissingCounted ==
    InGetData
        => bad_records >= Cardinality({j \in 1..Processed : HasMarker(data[j])})

\* C10 amended: the step over a line with '?' drops the line, leaves
\* bad_records as it is and adds nothing to the cleaned records.
C10_MissingSkipped ==
    [][(pc = "get_data_loop" /\ gi <= Len(data) /\ HasMarker(data[gi]))
          => /\ bad_records' = bad_records
             /\ cleaned_dataset' = cleaned_dataset
             /\ gi' = gi + 1
             /\ pc' = "get_data_loop"]_vars

C10_Witness ==
    /\ pc = "get_data_loop" /\ gi = 3
    /\ HasMarker(data[2]) /\ ~HasMarker(data[1])
    /\ bad_records = 0
    /\ Len(cleaned_dataset) = 1

\* C9: the records are in the order of their lines, and main cuts them
\* into the first floor(n * 75 / 100) and the rest.
C9_OrderedSplit ==
    SplitDone
        => LET n == Len(cleaned_dataset)
               k == Len(training_dataset)
           IN  /\ \A i \in 1..n : cleaned_dataset[i] = ExpectedRecord(data[SourceLine(i)])
               /\ \A i \in 1..(n - 1) : SourceLine(i) < SourceLine(i + 1)
               /\ 100 * k <= 75 * n /\ 75 * n < 100 * (k + 1)
               /\ training_dataset \o test_dataset = cleaned_dataset
               /\ \A i \in 1..n : IF i <= k
                                  THEN training_dataset[i] = cleaned_dataset[i]
                                  ELSE test_dataset[i - k] = cleaned_dataset[i]

C9_Witness ==
    /\ call = "main" /\ pc = "create"
    /\ Len(data) = 3 /\ Len(cleaned_dataset) = 3
    /\ cleaned_dataset[1] # cleaned_dataset[2]
    /\ cleaned_dataset[2] # cleaned_dataset[3]
    /\ Len(training_dataset) = 2 /\ Len(test_dataset) = 1


\* create_classifier has been entered; it has raised; it has returned.
CreateEntered == ci >= 1

CreateRaised == CreateEntered /\ pc = "raised" /\ classifier = Unset

ClassifierBuilt == CreateEntered /\ classifier # Unset

NumericPositions(rec) == {k \in 1..(Len(rec) - 1) : IsNumeric(rec[k])}

CategoricalPositions(rec) == {k \in 1..(Len(rec) - 1) : ~IsNumeric(rec[k])}

\* 5 numeric + 6 categorical + 1 label.
FixedSchema(rec) ==
    /\ Len(rec) = RecordLen
    /\ Cardinality(NumericPositions(rec)) = NumLanes
    /\ Cardinality(CategoricalPositions(rec)) = NotNumLanes

\* The i-th numeric attribute of a record, i in 1..5.
NthNumeric(rec, i) ==
    IntOf(rec[CHOOSE k \in NumericPositions(rec) :
                  Cardinality({j \in NumericPositions(rec) : j < k}) = i - 1])

RECURSIVE SumF(_, _)
SumF(f, S) == IF S = {} THEN 0
              ELSE LET x == CHOOSE y \in S : TRUE
                   IN  f[x] + SumF(f, S \ {x})

\* The '>50K' records of the training data, and the others.
AboveRecords == {j \in 1..Len(training_dataset) :
                    training_dataset[j][Len(training_dataset[j])] = GT50K}

OtherRecords == (1..Len(training_dataset)) \ AboveRecords

AllFixedSchema == \A j \in 1..Len(training_dataset) : FixedSchema(training_dataset[j])

LaneSum(S, i) == SumF([j \in S |-> NthNumeric(training_dataset[j], i)], S)

Occurrences(S, v) ==
    SumF([j \in S |-> Cardinality({k \in CategoricalPositions(training_dataset[j]) :
                                      training_dataset[j][k] = v})], S)

ObservedValues ==
    UNION {{training_dataset[j][k] : k \in CategoricalPositions(training_dataset[j])} :
              j \in 1..Len(training_dataset)}

\* C5: on fixed-schema training data with a '>50K' record and another
\* record create_classifier does not raise, and the midpoint of lane i is
\* (mean of the i-th numeric attribute of the '>50K' records + mean of it
\* over the other records) / 2; 50 and 30 give 40.
C5_Midpoints ==
    (CreateEntered /\ AllFixedSchema /\ AboveRecords # {} /\ OtherRecords # {})
        => /\ ~CreateRaised
           /\ midpoint_num # <<>>
                 => /\ Len(midpoint_num) = NumLanes
                    /\ \A i \in 1..NumLanes :
                          LET a == Cardinality(AboveRecords)
                              o == Cardinality(OtherRecords)
                              m == midpoint_num[i]
                          IN  /\ m.den > 0
                              /\ m.num * (2 * a * o)
                                     = (LaneSum(AboveRecords, i) * o
                                           + LaneSum(OtherRecords, i) * a) * m.den
                              /\ (/\ a = 1 /\ o = 1
                                  /\ LaneSum(AboveRecords, i) = 50
                                  /\ LaneSum(OtherRecords, i) = 30)
                                     => m.num = 40 * m.den

C5_Witness ==
    /\ call = "create_classifier" /\ pc = "create_outcomes"
    /\ AllFixedSchema
    /\ Cardinality(AboveRecords) = 1 /\ Cardinality(OtherRecords) = 1
    /\ LaneSum(AboveRecords, 1) = 50 /\ LaneSum(OtherRecords, 1) = 30
    /\ midpoint_num[1].num = 40 * midpoint_num[1].den

\* C6: the table create_classifier returns on fixed-schema training data
\* has the observed categorical values as its keys and no others, and a
\* value is "pos", "neg" or "neutral" as its occurrences per '>50K'
\* record are more than, fewer than or as many as its occurrences per
\* other record.
C6_Sentiment ==
    (ClassifierBuilt /\ AllFixedSchema)
        => /\ DOMAIN classifier[2] = ObservedValues
           /\ \A v \in ObservedValues :
                 LET a == Cardinality(AboveRecords)
                     o == Cardinality(OtherRecords)
                     p == Occurrences(AboveRecords, v)
                     n == Occurrences(OtherRecords, v)
                 IN  /\ a > 0 /\ o > 0
                     /\ classifier[2][v] = IF p * o > n * a THEN "pos"
                                           ELSE IF p * o < n * a THEN "neg"
                                           ELSE "neutral"

C6_Witness ==
    /\ call = "create_classifier" /\ pc = "done"
    /\ AllFixedSchema
    /\ Cardinality(AboveRecords) = 2 /\ Cardinality(OtherRecords) = 1
    /\ \E v \in ObservedValues :
          /\ Occurrences(AboveRecords, v) = Occurrences(OtherRecords, v)
          /\ classifier[2][v] = "neg"
    /\ \E v \in ObservedValues : classifier[2][v] = "neutral"
    /\ \E v \in ObservedValues : classifier[2][v] = "pos"

\* test_classifier has been entered.
TestEntered == ti >= 1

\* The cursor at attribute k of a record: the numeric attributes before it.
CursorAt(rec, k) == Cardinality({j \in NumericPositions(rec) : j < k})

\* Attribute k of a record votes Positive / Negative under the classifier.
VotesPositive(rec, k) ==
    IF IsNumeric(rec[k])
    THEN /\ CursorAt(rec, k) < Len(classifier[1])
         /\ LET t == classifier[1][CursorAt(rec, k) + 1]
            IN  IntOf(rec[k]) * t.den > t.num
    ELSE rec[k] \in DOMAIN classifier[2] /\ classifier[2][rec[k]] = "pos"

VotesNegative(rec, k) ==
    IF IsNumeric(rec[k])
    THEN /\ CursorAt(rec, k) < Len(classifier[1])
         /\ LET t == classifier[1][CursorAt(rec, k) + 1]
            IN  IntOf(rec[k]) * t.den <= t.num
    ELSE rec[k] \in DOMAIN classifier[2] /\ classifier[2][rec[k]] = "neg"

PositiveVotes(rec, upto) == Cardinality({k \in 1..upto : VotesPositive(rec, k)})

NegativeVotes(rec, upto) == Cardinality({k \in 1..upto : VotesNegative(rec, k)})

PredictedLabel(rec) ==
    IF PositiveVotes(rec, Len(rec) - 1) > NegativeVotes(rec, Len(rec) - 1)
    THEN GT50K ELSE LE50K

\* C4: while a record is gone through, the counters are the votes of the
\* attributes seen so far (a numeric attribute votes Positive when above
\* the midpoint at the cursor and Negative otherwise, a categorical one as
\* its table entry says, not at all when "neutral" or absent) and the
\* cursor is the number of numeric attributes seen; a record counts as
\* misclassified exactly when its label is not '>50K' with more Positive
\* than Negative votes, '<=50K' otherwise.
C4_PredictionRule ==
    TestEntered
        => /\ pc = "test_attr"
                 => LET rec == test_dataset[ti]
                    IN  /\ pos_counter = PositiveVotes(rec, ai - 1)
                        /\ neg_counter = NegativeVotes(rec, ai - 1)
                        /\ next_index = CursorAt(rec, ai)
                        /\ pos_counter + neg_counter
                              = next_index
                                  + Cardinality({k \in CategoricalPositions(rec) :
                                        /\ k < ai
                                        /\ rec[k] \in DOMAIN classifier[2]
                                        /\ classifier[2][rec[k]] # "neutral"})
           /\ incorrect_classification
                 = Cardinality({j \in 1..(ti - 1) :
                       test_dataset[j][Len(test_dataset[j])]
                           # PredictedLabel(test_dataset[j])})

C4_Witness ==
    /\ call = "test_classifier" /\ pc = "test_record" /\ ti = 2
    /\ LET rec == test_dataset[1]
       IN  /\ PositiveVotes(rec, Len(rec) - 1) = NegativeVotes(rec, Len(rec) - 1)
           /\ PositiveVotes(rec, Len(rec) - 1) > 0
           /\ rec[Len(rec)] = GT50K
           /\ \E k \in CategoricalPositions(rec) : rec[k] \notin DOMAIN classifier[2]
    /\ incorrect_classification = 1

\* The inputs and the result of the accuracy formula, once it is computed.
ScoreInputs ==
    IF call = "accuracy_score" THEN score_args
    ELSE <<incorrect_classification, Len(test_dataset)>>

Scored == pc = "done" /\ accuracy_score # Unset

\* C7 as stated: the misclassified records are never more than the records
\* gone through, the accuracy lies in [0, 100], it is 100 exactly when no
\* record is misclassified and 0 exactly when all are.
C7_AccuracyExact ==
    /\ TestEntered => incorrect_classification <= ti - 1
    /\ Scored
          => /\ accuracy_score[1] \in 0..Scale
             /\ accuracy_score[1] = Scale <=> ScoreInputs[1] = 0
             /\ accuracy_score[1] = 0 <=> ScoreInputs[1] = ScoreInputs[2]

\* C7 amended: the misclassified records are never more than the records
\* gone through, the accuracy lies in [0, 100], it is 100 when no record
\* is misclassified and 0 when all are; an accuracy of 100 (of 0) says no
\* more than that at most one record in 20000 is misclassified (is not).
C7_AccuracyRounded ==
    /\ TestEntered => incorrect_classification <= ti - 1
    /\ Scored
          => LET m == ScoreInputs[1]
                 n == ScoreInputs[2]
             IN  /\ accuracy_score[1] \in 0..Scale
                 /\ m = 0 => accuracy_score[1] = Scale
                 /\ m = n => accuracy_score[1] = 0
                 /\ accuracy_score[1] = Scale => 2 * Scale * m <= n
                 /\ accuracy_score[1] = 0 => 2 * Scale * (n - m) <= n
                 /\ n < 2 * Scale
                       => /\ accuracy_score[1] = Scale <=> m = 0
                          /\ accuracy_score[1] = 0 <=> m = n

C7_Witness ==
    /\ call = "test_classifier" /\ Scored
    /\ Len(test_dataset) = 2
    /\ incorrect_classification = 1
    /\ accuracy_score[1] = Scale \div 2

\* C8: test_classifier on an empty test set returns no accuracy and ends
\* in a ZeroDivisionError; create_classifier on training data without a
\* '>50K' record or without another record returns no classifier and ends
\* in a ZeroDivisionError.
C8_DegenerateFatal ==
    /\ (TestEntered /\ test_dataset = <<>>)
          => /\ accuracy_score = Unset
             /\ pc \in {"test_record", "raised"}
             /\ pc = "raised" => exc = "ZeroDivisionError"
    /\ (CreateEntered /\ (AboveRecords = {} \/ OtherRecords = {}))
          => /\ classifier = Unset
             /\ midpoint_num = <<>>
             /\ pc \in {"create_loop", "raised"}
             /\ pc = "raised" => exc = "ZeroDivisionError"

C8_Witness ==
    /\ call = "create_classifier"
    /\ pc = "raised" /\ exc = "ZeroDivisionError"
    /\ Len(training_dataset) = 2
    /\ OtherRecords = {}
    /\ AllFixedSchema

====
